---- MODULE Spec2Model ----
(***************************************************************************)
(* Mood Tracker API (app.py): POST /predict.                               *)
(*                                                                         *)
(* A request body is validated against MoodInput; the handler predict_mood *)
(* then calls predict_mood_score, calls generate_recommendations, and      *)
(* builds a MoodOutput; any exception raised inside the handler's try      *)
(* block becomes an HTTP 500 whose detail is str(e).                       *)
(*                                                                         *)
(* Units.  The float fields of MoodInput (water_intake, sleep,             *)
(* screen_time, outdoor_time) are held in tenths (75 is 7.5); people_met   *)
(* and exercise are plain integers.  The Scorer's result is held in        *)
(* eighths of a point (50 is 6.25), which a binary float represents        *)
(* exactly, and the mood_score of a response in tenths of a point.         *)
(*                                                                         *)
(* model.py and recommendations.py are not part of the sources at hand:    *)
(* predict_mood_score, generate_recommendations and train_model_if_needed  *)
(* follow the design document (sections 4.1 and 4.2).                      *)
(***************************************************************************)
EXTENDS Integers, Sequences, FiniteSets, TLC

\* Number of request slots that may be in flight at once.
NumRequests == 2
\* The largest people_met / exercise value a request carries.
MaxCount == 1000

Req == 1..NumRequests

VARIABLES
    model,            \* module-level state set up by train_model_if_needed()
    pc,               \* pc[r]: where request r is
    body,             \* body[r]: the JSON body received
    input_data,       \* input_data[r]: the validated MoodInput
    mood_score,       \* mood_score[r]: the handler's local (eighths)
    recommendations,  \* recommendations[r]: the handler's local
    exc,              \* exc[r]: the exception bound by `except Exception as e`
    response,         \* response[r]: the HTTP response
    calls             \* calls[r]: the calls made to model.py / recommendations.py

vars == <<model, pc, body, input_data, mood_score, recommendations, exc,
          response, calls>>

-----------------------------------------------------------------------------
(* MoodInput *)

FloatFields == {"water_intake", "sleep", "screen_time", "outdoor_time"}
IntFields == {"people_met", "exercise"}
StressLevels == {"Low", "Medium", "High"}
FoodQualities == {"Healthy", "Moderate", "Unhealthy"}
Priorities == {"High", "Medium", "Low"}

\* max_values of check_reasonable_values, in the units of the source
max_values ==
    [water_intake |-> 15, sleep |-> 24, screen_time |-> 24, outdoor_time |-> 24]

\* Field(ge=0): TRUE when the constraint is violated
GeViolated(v) == v < 0

\* check_reasonable_values: TRUE when it raises ValueError. v is in tenths.
\* (Faulty variants: an exclusive bound; a validator not registered for sleep.)
CheckExclusive(field_name, v) == v >= max_values[field_name] * 10
CheckSkipsSleep(field_name, v) ==
    field_name # "sleep" /\ v > max_values[field_name] * 10
check_reasonable_values(field_name, v) == v > max_values[field_name] * 10

\* day_rating: str, with no further constraint
\* (Faulty variant: a min_length=1 constraint.)
DayRatingMinLength(v) ==
    IF v = "" THEN {<<"day_rating", "string_too_short">>} ELSE {}
DayRatingErrors(v) == {}

\* The errors pydantic collects for a body. The field validator runs after
\* the field's own constraint and only when that constraint passed.
MoodInputErrors(b) ==
    DayRatingErrors(b.day_rating)
    \cup {<<f, "greater_than_equal">> :
             f \in {g \in FloatFields \cup IntFields : GeViolated(b[g])}}
    \cup {<<f, "value_error">> :
             f \in {g \in FloatFields :
                      ~GeViolated(b[g]) /\ check_reasonable_values(g, b[g])}}
    \cup (IF b.stress_level \in StressLevels
            THEN {} ELSE {<<"stress_level", "literal_error">>})
    \cup (IF b.food_quality \in FoodQualities
            THEN {} ELSE {<<"food_quality", "literal_error">>})

\* FastAPI's answer to a body that fails MoodInput
RequestValidationError(errs) == [status |-> 422, detail |-> errs]

-----------------------------------------------------------------------------
(* model.py: the Scorer *)

TrainedModel == "trained"
train_model_if_needed == TrainedModel

Clamp(x, lo, hi) == IF x < lo THEN lo ELSE IF x > hi THEN hi ELSE x

SleepTerm(s) == IF s < 50 THEN -12 ELSE IF s < 70 THEN -4 ELSE 8
StressTerm(s) == CASE s = "Low" -> 8 [] s = "Medium" -> 0 [] OTHER -> -12
FoodTerm(f) == CASE f = "Healthy" -> 8 [] f = "Moderate" -> 0 [] OTHER -> -8
SentimentTerm(t) == CASE t = "good" -> 5 [] t = "bad" -> -5 [] OTHER -> 0

\* The score in eighths of a point, clamped to [0, 10].
predict_mood_score(a) ==
    Clamp(40 + SleepTerm(a.sleep)
             + StressTerm(a.stress_level)
             + FoodTerm(a.food_quality)
             + SentimentTerm(a.day_rating)
             + (IF a.exercise >= 30 THEN 6 ELSE 0)
             + (IF a.people_met >= 1 THEN 4 ELSE -4)
             + (IF a.screen_time > 80 THEN -8 ELSE 0)
             + (IF a.outdoor_time >= 10 THEN 4 ELSE 0)
             + (IF a.water_intake >= 20 THEN 1 ELSE -1),
          0, 80)

-----------------------------------------------------------------------------
(* recommendations.py: the Recommender *)

Rec(p, text, c) == [priority |-> p, recommendation |-> text, category |-> c]

\* The rule table, in declaration order.
RuleTable == <<
    Rec("Medium", "Drink more water", "nutrition"),
    Rec("Low", "Reach out to someone", "social"),
    Rec("Medium", "Move for 30 minutes", "exercise"),
    Rec("High", "Sleep at least 7 hours", "sleep"),
    Rec("Medium", "Cut down screen time", "screen_time"),
    Rec("Low", "Spend time outside", "outdoors"),
    Rec("High", "Take time to unwind", "stress"),
    Rec("Medium", "Eat a balanced meal", "nutrition") >>

RuleFires(i, a) ==
    CASE i = 1 -> a.water_intake < 20
      [] i = 2 -> a.people_met = 0
      [] i = 3 -> a.exercise < 30
      [] i = 4 -> a.sleep < 60
      [] i = 5 -> a.screen_time > 80
      [] i = 6 -> a.outdoor_time < 10
      [] i = 7 -> a.stress_level = "High"
      [] i = 8 -> a.food_quality = "Unhealthy"

RECURSIVE FiredFrom(_, _)
FiredFrom(i, a) ==
    IF i > Len(RuleTable) THEN << >>
    ELSE (IF RuleFires(i, a) THEN <<RuleTable[i]>> ELSE << >>)
         \o FiredFrom(i + 1, a)

\* A stable sort by priority rank: High, then Medium, then Low.
SortByPriority(s) ==
    SelectSeq(s, LAMBDA x : x.priority = "High")
    \o SelectSeq(s, LAMBDA x : x.priority = "Medium")
    \o SelectSeq(s, LAMBDA x : x.priority = "Low")

generate_recommendations(a) == SortByPriority(FiredFrom(1, a))

-----------------------------------------------------------------------------
(* Recommendation, MoodOutput, and the handler's expressions *)

\* Recommendation: priority is one of the literals, and recommendation and
\* category are present. (Faulty variant: no validation.)
RecommendationAny(x) == TRUE
Recommendation(x) ==
    /\ {"priority", "recommendation", "category"} \subseteq DOMAIN x
    /\ x.priority \in Priorities

\* round(mood_score, 1): eighths to tenths, to nearest, ties to even
\* (Faulty variant: truncation.)
RoundDown(e) == (5 * e) \div 4
round(e) ==
    LET q == (5 * e) \div 4
        rem == (5 * e) % 4
    IN  IF rem < 2 THEN q
        ELSE IF rem > 2 THEN q + 1
        ELSE IF q % 2 = 0 THEN q ELSE q + 1

\* The keyword arguments of the two calls
ScorerArgs(d) ==
    [day_rating |-> d.day_rating, water_intake |-> d.water_intake,
     people_met |-> d.people_met, exercise |-> d.exercise, sleep |-> d.sleep,
     screen_time |-> d.screen_time, outdoor_time |-> d.outdoor_time,
     stress_level |-> d.stress_level, food_quality |-> d.food_quality]

\* (Faulty variant: two keywords swapped.)
RecommenderArgsSwapped(d) ==
    [water_intake |-> d.water_intake,
     people_met |-> d.people_met, exercise |-> d.exercise, sleep |-> d.sleep,
     screen_time |-> d.outdoor_time, outdoor_time |-> d.screen_time,
     stress_level |-> d.stress_level, food_quality |-> d.food_quality]
RecommenderArgs(d) ==
    [water_intake |-> d.water_intake,
     people_met |-> d.people_met, exercise |-> d.exercise, sleep |-> d.sleep,
     screen_time |-> d.screen_time, outdoor_time |-> d.outdoor_time,
     stress_level |-> d.stress_level, food_quality |-> d.food_quality]

Call(fn, args) == [fn |-> fn, args |-> args]

\* MoodOutput(mood_score=..., recommendations=...): the list keeps its order
\* (Faulty variant: the list reversed.)
Reverse(s) == [i \in 1..Len(s) |-> s[Len(s) + 1 - i]]
MoodOutputReversed(score, recs) ==
    [status |-> 200, mood_score |-> score, recommendations |-> Reverse(recs)]
MoodOutput(score, recs) ==
    [status |-> 200, mood_score |-> score, recommendations |-> recs]

\* pydantic's ValidationError for a MoodOutput that cannot be built
OutputValidationError ==
    [kind |-> "ValidationError",
     message |-> "validation error for MoodOutput"]

\* str(e)
str(e) == e.message

\* HTTPException(status_code=500, detail=str(e))
\* (Faulty variant: the exception's class name as the detail.)
HTTPExceptionKind(e) == [status |-> 500, detail |-> e.kind]
HTTPException(e) == [status |-> 500, detail |-> str(e)]

\* A handler local belongs to its request.
\* (Faulty variant: a module-level variable shared by all requests.)
SetGlobal(f, r, v) == [q \in DOMAIN f |-> v]
SetLocal(f, r, v) == [f EXCEPT ![r] = v]

-----------------------------------------------------------------------------
(* Values before they are assigned *)

NoBody == [day_rating |-> "", water_intake |-> 0, people_met |-> 0,
           exercise |-> 0, sleep |-> 0, screen_time |-> 0,
           outdoor_time |-> 0, stress_level |-> "", food_quality |-> ""]
NoException == [kind |-> "", message |-> ""]
NoResponse == [status |-> 0]

Init ==
    /\ model = train_model_if_needed
    /\ pc = [r \in Req |-> "idle"]
    /\ body = [r \in Req |-> NoBody]
    /\ input_data = [r \in Req |-> NoBody]
    /\ mood_score = [r \in Req |-> 0]
    /\ recommendations = [r \in Req |-> << >>]
    /\ exc = [r \in Req |-> NoException]
    /\ response = [r \in Req |-> NoResponse]
    /\ calls = [r \in Req |-> << >>]

-----------------------------------------------------------------------------
(* Request bodies *)

AllBodies ==
    [day_rating : {"", "good", "bad"},
     water_intake : {-1, 0, 150, 151, 200},
     people_met : {-1, 0, MaxCount},
     exercise : {-1, 0, MaxCount},
     sleep : {-1, 0, 75, 240, 250},
     screen_time : {-1, 0, 240, 241},
     outdoor_time : {-1, 0, 240, 241},
     stress_level : StressLevels \cup {"Extreme"},
     food_quality : FoodQualities \cup {"Junk"}]

GoodDay ==
    [day_rating |-> "good", water_intake |-> 20, people_met |-> 3,
     exercise |-> 30, sleep |-> 75, screen_time |-> 40, outdoor_time |-> 10,
     stress_level |-> "Low", food_quality |-> "Healthy"]
BadDay ==
    [day_rating |-> "bad", water_intake |-> 10, people_met |-> 0,
     exercise |-> 0, sleep |-> 30, screen_time |-> 120, outdoor_time |-> 0,
     stress_level |-> "High", food_quality |-> "Unhealthy"]
SampleBodies ==
    {GoodDay, BadDay,
     [GoodDay EXCEPT !.day_rating = ""],
     [GoodDay EXCEPT !.water_intake = 200],
     [BadDay EXCEPT !.sleep = 250]}

\* What a failing model.py / recommendations.py may do
ScorerExceptions ==
    {[kind |-> "RuntimeError", message |-> "model is not loaded"],
     [kind |-> "ValueError", message |-> "could not convert string to float"]}
RecommenderExceptions ==
    {[kind |-> "KeyError", message |-> "'sleep'"]}
OtherResults ==
    {<<[priority |-> "Urgent", recommendation |-> "Rest", category |-> "sleep"]>>,
     <<Rec("High", "Rest", "sleep"),
       [priority |-> "Low", recommendation |-> "Go out"]>>,
     <<Rec("Low", "Go out", "outdoors"), Rec("High", "Rest", "sleep")>>}

-----------------------------------------------------------------------------
(* The steps of one request *)

\* A body arrives for POST /predict.
Receive(r, bodies) ==
    /\ pc[r] = "idle"
    /\ pc' = [pc EXCEPT ![r] = "validate"]
    /\ \E b \in bodies : body' = [body EXCEPT ![r] = b]
    /\ UNCHANGED <<model, input_data, mood_score, recommendations, exc,
                   response, calls>>

\* input_data: MoodInput -- a body with errors is answered 422 and the
\* handler is not entered.
Validate(r) ==
    /\ pc[r] = "validate"
    /\ LET errs == MoodInputErrors(body[r])
       IN  IF errs # {}
           THEN /\ response' = [response EXCEPT ![r] = RequestValidationError(errs)]
                /\ pc' = [pc EXCEPT ![r] = "done"]
                /\ UNCHANGED input_data
           ELSE /\ input_data' = [input_data EXCEPT ![r] = body[r]]
                /\ pc' = [pc EXCEPT ![r] = "score"]
                /\ UNCHANGED response
    /\ UNCHANGED <<model, body, mood_score, recommendations, exc, calls>>

\* mood_score = predict_mood_score(...)
CallScorer(r) ==
    /\ pc[r] = "score"
    /\ model = TrainedModel
    /\ LET args == ScorerArgs(input_data[r])
       IN  /\ calls' = [calls EXCEPT
                          ![r] = Append(@, Call("predict_mood_score", args))]
           /\ mood_score' = SetLocal(mood_score, r, predict_mood_score(args))
    /\ pc' = [pc EXCEPT ![r] = "recommend"]
    /\ UNCHANGED <<model, body, input_data, recommendations, exc, response>>

\* recommendations = generate_recommendations(...)
CallRecommender(r) ==
    /\ pc[r] = "recommend"
    /\ LET args == RecommenderArgs(input_data[r])
       IN  /\ calls' = [calls EXCEPT
                          ![r] = Append(@, Call("generate_recommendations", args))]
           /\ recommendations' =
                  SetLocal(recommendations, r, generate_recommendations(args))
    /\ pc' = [pc EXCEPT ![r] = "respond"]
    /\ UNCHANGED <<model, body, input_data, mood_score, exc, response>>

\* return MoodOutput(mood_score=round(mood_score, 1), recommendations=...)
Respond(r) ==
    /\ pc[r] = "respond"
    /\ IF \A i \in 1..Len(recommendations[r]) :
              Recommendation(recommendations[r][i])
       THEN /\ response' = [response EXCEPT
                   ![r] = MoodOutput(round(mood_score[r]), recommendations[r])]
            /\ pc' = [pc EXCEPT ![r] = "done"]
            /\ UNCHANGED exc
       ELSE /\ exc' = [exc EXCEPT ![r] = OutputValidationError]
            /\ pc' = [pc EXCEPT ![r] = "except"]
            /\ UNCHANGED response
    /\ UNCHANGED <<model, body, input_data, mood_score, recommendations, calls>>

\* except Exception as e: raise HTTPException(status_code=500, detail=str(e))
HandleException(r) ==
    /\ pc[r] = "except"
    /\ response' = [response EXCEPT ![r] = HTTPException(exc[r])]
    /\ pc' = [pc EXCEPT ![r] = "done"]
    /\ UNCHANGED <<model, body, input_data, mood_score, recommendations, exc,
                   calls>>

\* The response is sent and everything the request created is discarded.
Release(r) ==
    /\ pc[r] = "done"
    /\ pc' = [pc EXCEPT ![r] = "idle"]
    /\ body' = [body EXCEPT ![r] = NoBody]
    /\ input_data' = [input_data EXCEPT ![r] = NoBody]
    /\ mood_score' = [mood_score EXCEPT ![r] = 0]
    /\ recommendations' = [recommendations EXCEPT ![r] = << >>]
    /\ exc' = [exc EXCEPT ![r] = NoException]
    /\ response' = [response EXCEPT ![r] = NoResponse]
    /\ calls' = [calls EXCEPT ![r] = << >>]
    /\ UNCHANGED model

(* A failing Scorer or Recommender *)

\* predict_mood_score raises e.
ScorerRaises(r, e) ==
    /\ pc[r] = "score"
    /\ calls' = [calls EXCEPT
           ![r] = Append(@, Call("predict_mood_score", ScorerArgs(input_data[r])))]
    /\ exc' = [exc EXCEPT ![r] = e]
    /\ pc' = [pc EXCEPT ![r] = "except"]
    /\ UNCHANGED <<model, body, input_data, mood_score, recommendations,
                   response>>

\* generate_recommendations raises e.
RecommenderRaises(r, e) ==
    /\ pc[r] = "recommend"
    /\ calls' = [calls EXCEPT
           ![r] = Append(@, Call("generate_recommendations",
                                 RecommenderArgs(input_data[r])))]
    /\ exc' = [exc EXCEPT ![r] = e]
    /\ pc' = [pc EXCEPT ![r] = "except"]
    /\ UNCHANGED <<model, body, input_data, mood_score, recommendations,
                   response>>

\* generate_recommendations returns something other than its contract.
RecommenderReturns(r, recs) ==
    /\ pc[r] = "recommend"
    /\ calls' = [calls EXCEPT
           ![r] = Append(@, Call("generate_recommendations",
                                 RecommenderArgs(input_data[r])))]
    /\ recommendations' = SetLocal(recommendations, r, recs)
    /\ pc' = [pc EXCEPT ![r] = "respond"]
    /\ UNCHANGED <<model, body, input_data, mood_score, exc, response>>

-----------------------------------------------------------------------------
(* Specifications *)

\* Concurrent requests, Scorer and Recommender as designed.
Next ==
    \E r \in Req :
        \/ Receive(r, SampleBodies)
        \/ Validate(r)
        \/ CallScorer(r)
        \/ CallRecommender(r)
        \/ Respond(r)
        \/ Release(r)

Spec == Init /\ [][Next]_vars

\* One request at a time, over every body of AllBodies.
NextAll ==
    \/ Receive(1, AllBodies)
    \/ Validate(1)
    \/ CallScorer(1)
    \/ CallRecommender(1)
    \/ Respond(1)
    \/ Release(1)

SpecAll == Init /\ [][NextAll]_vars

\* Concurrent requests, with a Scorer and a Recommender that may fail.
NextFault ==
    \E r \in Req :
        \/ Receive(r, SampleBodies)
        \/ Validate(r)
        \/ CallScorer(r)
        \/ CallRecommender(r)
        \/ Respond(r)
        \/ HandleException(r)
        \/ Release(r)
        \/ \E e \in ScorerExceptions : ScorerRaises(r, e)
        \/ \E e \in RecommenderExceptions : RecommenderRaises(r, e)
        \/ \E recs \in OtherResults : RecommenderReturns(r, recs)

SpecFault == Init /\ [][NextFault]_vars

-----------------------------------------------------------------------------
(* Properties *)

\* The constraints of the data model on the eight metric fields (tenths for
\* the float fields).
InDomain(a) ==
    /\ 0 <= a.water_intake /\ a.water_intake <= 150
    /\ 0 <= a.sleep /\ a.sleep <= 240
    /\ 0 <= a.screen_time /\ a.screen_time <= 240
    /\ 0 <= a.outdoor_time /\ a.outdoor_time <= 240
    /\ a.people_met >= 0
    /\ a.exercise >= 0
    /\ a.stress_level \in {"Low", "Medium", "High"}
    /\ a.food_quality \in {"Healthy", "Moderate", "Unhealthy"}

Validated(r) == pc[r] \notin {"idle", "validate"}

\* C1: every call to the Scorer or the Recommender carries field values
\* inside the data model's ranges, and a request with any field outside them
\* ends with a 422 validation failure, no call made and no mood_score.
C1_OnlyValidReachesCore ==
    \A r \in Req :
        /\ \A i \in 1..Len(calls[r]) : InDomain(calls[r][i].args)
        /\ (Validated(r) /\ ~InDomain(body[r])) =>
              /\ pc[r] = "done"
              /\ response[r].status = 422
              /\ response[r].detail # {}
              /\ calls[r] = << >>
              /\ "mood_score" \notin DOMAIN response[r]

\* A request with sleep = 25 and every other field valid has been rejected.
C1_Witness ==
    \E r \in Req :
        /\ pc[r] = "done"
        /\ body[r].sleep = 250
        /\ InDomain([body[r] EXCEPT !.sleep = 75])
        /\ response[r].status = 422
        /\ calls[r] = << >>

\* C2 as stated: a request whose day_rating is the empty string is rejected
\* and never reaches the Scorer or the Recommender.
C2_EmptyDayRatingRejected ==
    \A r \in Req :
        (Validated(r) /\ body[r].day_rating = "") =>
            /\ pc[r] = "done"
            /\ response[r].status = 422
            /\ calls[r] = << >>

\* C2 amended: a string day_rating, the empty string included, never causes
\* a validation failure; a request with an empty day_rating whose other
\* fields are valid is accepted, reaches the Scorer and the Recommender and
\* gets a success response.
C2_EmptyDayRatingAccepted ==
    \A r \in Req :
        /\ response[r].status = 422 =>
              \A e \in response[r].detail : e[1] # "day_rating"
        /\ (Validated(r) /\ body[r].day_rating = "" /\ InDomain(body[r])) =>
              /\ response[r].status # 422
              /\ pc[r] = "done" =>
                    /\ response[r].status = 200
                    /\ Len(calls[r]) = 2
                    /\ calls[r][1].args.day_rating = ""

\* A request with an empty day_rating has been answered with a success.
C2_Witness ==
    \E r \in Req :
        /\ pc[r] = "done"
        /\ body[r].day_rating = ""
        /\ response[r].status = 200
        /\ calls[r][1].fn = "predict_mood_score"

\* C3: a request that satisfies the data model -- the inclusive upper bounds
\* 15 and 24, zero, and any non-negative people_met and exercise included --
\* is never rejected: it enters the handler, and both the Scorer and the
\* Recommender have been called with its values when it is done.
C3_BoundsInclusive ==
    \A r \in Req :
        (Validated(r) /\ InDomain(body[r])) =>
            /\ input_data[r] = body[r]
            /\ response[r].status \notin {422, 500}
            /\ pc[r] \in {"score", "recommend", "respond", "done"}
            /\ pc[r] \in {"recommend", "respond", "done"} =>
                  /\ calls[r][1].fn = "predict_mood_score"
                  /\ calls[r][1].args.water_intake = body[r].water_intake
                  /\ calls[r][1].args.sleep = body[r].sleep
            /\ pc[r] \in {"respond", "done"} =>
                  /\ calls[r][2].fn = "generate_recommendations"
                  /\ calls[r][2].args.screen_time = body[r].screen_time
                  /\ calls[r][2].args.outdoor_time = body[r].outdoor_time

\* A request with every bounded field at its upper bound and the largest
\* counts has been answered with a success.
C3_Witness ==
    \E r \in Req :
        /\ pc[r] = "done"
        /\ body[r].water_intake = 150
        /\ body[r].sleep = 240
        /\ body[r].screen_time = 240
        /\ body[r].outdoor_time = 240
        /\ body[r].people_met = MaxCount
        /\ body[r].exercise = MaxCount
        /\ response[r].status = 200
        /\ Len(calls[r]) = 2

PriorityRank(p) == CASE p = "High" -> 3 [] p = "Medium" -> 2 [] p = "Low" -> 1

Alone(b) ==
    IF MoodInputErrors(b) # {}
    THEN [status |-> 422, detail |-> MoodInputErrors(b)]
    ELSE [status |-> 200,
          mood_score |-> round(predict_mood_score(b)),
          recommendations |-> generate_recommendations(b)]

Failed(r) == exc[r] # NoException

\* C5: a request in which the Scorer or the Recommender raised ends with a
\* 500 whose detail is the text of the exception; it gets no success
\* response and no part of a result, and no call is made twice.
C5_FailureBecomes500 ==
    \A r \in Req :
        /\ (Failed(r) /\ pc[r] = "except") => response[r] = NoResponse
        /\ (Failed(r) /\ pc[r] = "done") =>
              /\ response[r].status = 500
              /\ response[r].detail = exc[r].message
              /\ DOMAIN response[r] = {"status", "detail"}
        /\ response[r].status = 200 => ~Failed(r)
        /\ \A i, j \in 1..Len(calls[r]) :
              calls[r][i].fn = calls[r][j].fn => i = j

\* The Recommender raised after the Scorer had returned a score, and the
\* request ended with the 500.
C5_Witness ==
    \E r \in Req :
        /\ pc[r] = "done"
        /\ exc[r] \in RecommenderExceptions
        /\ Len(calls[r]) = 2
        /\ response[r].status = 500
        /\ response[r].detail = "'sleep'"

\* C9: the calls of a request are, in this order and each at most once, the
\* Scorer with all nine validated fields and the Recommender with the same
\* values less day_rating; after a failure of the Scorer the Recommender is
\* not called.
C9_CallOrder ==
    \A r \in Req :
        LET d == input_data[r]
            expected ==
                << [fn |-> "predict_mood_score", args |-> d],
                   [fn |-> "generate_recommendations",
                    args |-> [f \in DOMAIN d \ {"day_rating"} |-> d[f]]] >>
        IN  /\ Len(calls[r]) <= 2
            /\ \A i \in 1..Len(calls[r]) : calls[r][i] = expected[i]
            /\ pc[r] = "score" => calls[r] = << >>
            /\ pc[r] = "recommend" => Len(calls[r]) = 1
            /\ pc[r] = "respond" => Len(calls[r]) = 2
            /\ exc[r] \in ScorerExceptions => Len(calls[r]) = 1

\* The Scorer raised and the request ended with only that one call made.
C9_Witness ==
    \E r \in Req :
        /\ pc[r] = "done"
        /\ exc[r] \in ScorerExceptions
        /\ Len(calls[r]) = 1
        /\ calls[r][1].fn = "predict_mood_score"
        /\ response[r].status = 500

WellFormed(x) ==
    /\ "priority" \in DOMAIN x
    /\ "recommendation" \in DOMAIN x
    /\ "category" \in DOMAIN x
    /\ x.priority \in {"High", "Medium", "Low"}

\* C10: every recommendation of a success response has priority, text and
\* category, the priority being High, Medium or Low; a request whose
\* Recommender returned a record that is not so ends with a 500.
C10_OnlyWellFormedReturned ==
    \A r \in Req :
        /\ response[r].status = 200 =>
              \A i \in 1..Len(response[r].recommendations) :
                  WellFormed(response[r].recommendations[i])
        /\ (pc[r] = "done" /\ \E i \in 1..Len(recommendations[r]) :
                                  ~WellFormed(recommendations[r][i])) =>
              /\ response[r].status = 500
              /\ response[r].detail = OutputValidationError.message

\* The Recommender returned a record of priority "Urgent" and the request
\* ended with a 500.
C10_Witness ==
    \E r \in Req :
        /\ pc[r] = "done"
        /\ Len(recommendations[r]) = 1
        /\ recommendations[r][1].priority = "Urgent"
        /\ response[r].status = 500

====
